---- MODULE Spec2Model ----
(***************************************************************************)
(* A model of computeSales.py: load_json_file, compute_sale_cost,          *)
(* write_results and main.                                                 *)
(*                                                                         *)
(* JSON values are records [t, n, s]: t is the kind ("absent" for a key    *)
(* that is not in its mapping, "null", "num", "str"), n the number of a    *)
(* "num" and s the text of a "str".  A text is a sequence of pieces; the   *)
(* text of a price or a quantity has one character a piece, so that        *)
(* float() of a string is a parse of its characters.  Prices and           *)
(* quantities are integers: the model does not cover floating-point        *)
(* rounding.                                                               *)
(*                                                                         *)
(* Spec is a run of main, a step for each statement of main and one for    *)
(* each sale of its loop.  SpecCost is one call of compute_sale_cost, a    *)
(* step for each line item.  The documents are shaped as the data model    *)
(* says: a catalogue is a mapping, a sale a mapping with an optional id    *)
(* and optional items, a line item a mapping whose product is a string or  *)
(* missing.                                                                *)
(***************************************************************************)
EXTENDS Integers, Sequences, FiniteSets, TLC

VARIABLES
    (* ---- the run of main ---- *)
    pc,               \* where main is
    argc,             \* len(sys.argv)
    fs,               \* the files: catalogue, sales (the two sources), results
    price_catalogue,  \* main's price_catalogue
    sales_record,     \* main's sales_record
    total_cost,       \* main's total_cost
    all_errors,       \* main's all_errors
    next_sale,        \* how many sales of sales_record the for loop has taken
    stdout,           \* the lines printed so far
    exit_status,      \* the process's exit status, -1 while it runs
    calls,            \* how often compute_sale_cost and write_results were entered
    (* ---- one call of compute_sale_cost, item by item ---- *)
    cpc,              \* where the call is
    c_sale,           \* its argument sale
    c_catalogue,      \* its argument price_catalogue
    c_next,           \* how many items the for loop has taken
    c_state           \* its locals total_cost and errors, and a raised exception

mainVars == <<pc, argc, fs, price_catalogue, sales_record, total_cost,
              all_errors, next_sale, stdout, exit_status, calls>>
costVars == <<cpc, c_sale, c_catalogue, c_next, c_state>>
vars == <<mainVars, costVars>>

(***************************************************************************)
(* Bounds of the model.                                                    *)
(***************************************************************************)
MaxSales == 2   \* sales in a sales record
MaxItems == 2   \* line items in a sales record (over all its sales)
MaxSaleItems == 2  \* line items of the sale of a single compute_sale_cost call

(***************************************************************************)
(* JSON values.                                                            *)
(***************************************************************************)
Absent == [t |-> "absent", n |-> 0, s |-> <<>>]
Null == [t |-> "null", n |-> 0, s |-> <<>>]
Num(k) == [t |-> "num", n |-> k, s |-> <<>>]
Str(cs) == [t |-> "str", n |-> 0, s |-> cs]

\* Python's None is JSON's null
None == Null

\* names, which nothing parses, are strings of one piece
Apple == <<"Apple">>
Bread == <<"Bread">>
Milk == <<"Milk">>
S1 == <<"S1">>

\* dict.get(key, default), v being the value under the key or Absent
Get(v, default) == IF v.t = "absent" THEN default ELSE v

\* Python's truth value of a JSON value: `not x` is ~Truthy(x)
Truthy(v) ==
    CASE v.t = "num" -> v.n # 0
      [] v.t = "str" -> v.s # <<>>
      [] OTHER -> FALSE

DigitChars == <<"0", "1", "2", "3", "4", "5", "6", "7", "8", "9">>

DigitVal(c) == (CHOOSE k \in 1..10 : DigitChars[k] = c) - 1

IsDigit(c) == \E k \in 1..10 : DigitChars[k] = c

RECURSIVE ParseDigits(_)
ParseDigits(cs) ==
    IF cs = <<>> THEN 0
    ELSE 10 * ParseDigits(SubSeq(cs, 1, Len(cs) - 1)) + DigitVal(cs[Len(cs)])

NoException == "none"

\* float(v): a number is itself, a string is parsed (here: unsigned decimal
\* digits), anything else is a TypeError
FloatOf(v) ==
    CASE v.t = "num" -> [exc |-> NoException, val |-> v.n]
      [] v.t = "str" ->
            IF v.s # <<>> /\ \A k \in 1..Len(v.s) : IsDigit(v.s[k])
            THEN [exc |-> NoException, val |-> ParseDigits(v.s)]
            ELSE [exc |-> "ValueError", val |-> 0]
      [] OTHER -> [exc |-> "TypeError", val |-> 0]

\* price * quantity, price a float: a str (a sequence) cannot be multiplied
\* by a float
Times(price, quantity) ==
    IF quantity.t = "num"
    THEN [exc |-> NoException, val |-> price * quantity.n]
    ELSE [exc |-> "TypeError", val |-> 0]

(***************************************************************************)
(* compute_sale_cost                                                       *)
(***************************************************************************)
\* the text of a formatted value: str(None) is "None"
Text(v) == IF v.t = "str" THEN v.s ELSE <<"None">>

InvalidItemMessage(sale) ==
    <<"Invalid item in sale ">> \o Text(Get(sale.id, Str(<<"Unknown">>)))
        \o <<": ", "Missing product name or quantity">>

NotFoundMessage(product_name) ==
    <<"Product '">> \o Text(product_name) \o <<"' not found in price catalogue">>

InvalidPriceMessage(product_name) ==
    <<"Invalid price for product '">> \o Text(product_name)
        \o <<"' ", "in price catalogue">>

\* faulty variant: except ValueError
CaughtOnlyValueError(exc) == exc = "ValueError"

\* except (ValueError, TypeError)
Caught(exc) == exc \in {"ValueError", "TypeError"}

\* faulty variant: the exception is swallowed, no error is recorded
TryAddNoError(st, product_name, quantity, catalogue) ==
    LET price == FloatOf(catalogue[product_name.s])
        cost == IF price.exc = NoException THEN Times(price.val, quantity) ELSE price
    IN  IF cost.exc = NoException
        THEN [st EXCEPT !.total_cost = @ + cost.val]
        ELSE st

\* faulty variant: total_cost = price * quantity
TryAddOverwrite(st, product_name, quantity, catalogue) ==
    LET price == FloatOf(catalogue[product_name.s])
        cost == IF price.exc = NoException THEN Times(price.val, quantity) ELSE price
    IN  IF cost.exc = NoException
        THEN [st EXCEPT !.total_cost = cost.val]
        ELSE IF Caught(cost.exc)
        THEN [st EXCEPT !.errors = Append(@, InvalidPriceMessage(product_name))]
        ELSE [st EXCEPT !.raised = cost.exc]

\* the try statement of the loop body: st is [total_cost, errors, raised]
TryAdd(st, product_name, quantity, catalogue) ==
    LET price == FloatOf(catalogue[product_name.s])
        cost == IF price.exc = NoException THEN Times(price.val, quantity) ELSE price
    IN  IF cost.exc = NoException
        THEN [st EXCEPT !.total_cost = @ + cost.val]
        ELSE IF Caught(cost.exc)
        THEN [st EXCEPT !.errors = Append(@, InvalidPriceMessage(product_name))]
        ELSE [st EXCEPT !.raised = cost.exc]

\* faulty variant: the catalogue lookup precedes the check of the fields
ItemStepLookupFirst(st, sale, catalogue, item) ==
    LET product_name == Get(item.product, None)
        quantity == Get(item.quantity, Num(0))
    IN  IF product_name.t = "str" /\ product_name.s \notin DOMAIN catalogue
        THEN [st EXCEPT !.errors = Append(@, NotFoundMessage(product_name))]
        ELSE IF ~Truthy(product_name) \/ ~Truthy(quantity)
        THEN [st EXCEPT !.errors = Append(@, InvalidItemMessage(sale))]
        ELSE TryAdd(st, product_name, quantity, catalogue)

\* faulty variant: an unknown product is skipped without an error
ItemStepUnknownAsFree(st, sale, catalogue, item) ==
    LET product_name == Get(item.product, None)
        quantity == Get(item.quantity, Num(0))
    IN  IF ~Truthy(product_name) \/ ~Truthy(quantity)
        THEN [st EXCEPT !.errors = Append(@, InvalidItemMessage(sale))]
        ELSE IF product_name.s \notin DOMAIN catalogue
        THEN st
        ELSE TryAdd(st, product_name, quantity, catalogue)

\* one iteration of `for item in sale.get('items', [])`
ItemStep(st, sale, catalogue, item) ==
    LET product_name == Get(item.product, None)
        quantity == Get(item.quantity, Num(0))
    IN  IF ~Truthy(product_name) \/ ~Truthy(quantity)
        THEN [st EXCEPT !.errors = Append(@, InvalidItemMessage(sale))]
        ELSE IF product_name.s \notin DOMAIN catalogue
        THEN [st EXCEPT !.errors = Append(@, NotFoundMessage(product_name))]
        ELSE TryAdd(st, product_name, quantity, catalogue)

\* total_cost = 0, errors = []
CostStart == [total_cost |-> 0, errors |-> <<>>, raised |-> NoException]

\* sale.get('items', [])
ItemsOf(sale) == IF sale.has_items THEN sale.items ELSE <<>>

\* the for loop over the first n items; an exception ends it
RECURSIVE CostLoop(_, _, _)
CostLoop(sale, catalogue, n) ==
    IF n = 0 THEN CostStart
    ELSE LET st == CostLoop(sale, catalogue, n - 1)
         IN  IF st.raised # NoException THEN st
             ELSE ItemStep(st, sale, catalogue, ItemsOf(sale)[n])

\* the call: (total_cost, errors), or the exception that left it
compute_sale_cost(sale, catalogue) ==
    CostLoop(sale, catalogue, Len(ItemsOf(sale)))

(***************************************************************************)
(* The inputs of a compute_sale_cost call.                                  *)
(***************************************************************************)
Prices == {Num(2), Str(<<"1", "3">>), Str(<<"x">>), Null}

Products == {Absent, Str(<<>>), Str(Apple), Str(Milk)}

Quantities == {Absent, Null, Num(0), Num(2), Str(<<"2">>)}

Items == [product : Products, quantity : Quantities]

\* the mappings from product names among keys to a price
CataloguesOver(keys, prices) == UNION {[K -> prices] : K \in SUBSET keys}

\* Apple is a key of every catalogue and Milk of none; the empty name may be
\* a key, with a price that is a number or is not one
Catalogues ==
    {c \in CataloguesOver({<<>>, Apple}, Prices) :
        /\ Apple \in DOMAIN c
        /\ <<>> \in DOMAIN c => c[<<>>] \in {Num(2), Str(<<"x">>)}}

SeqsUpTo(S, n) == UNION {[1..k -> S] : k \in 0..n}

Sales ==
    [id : {Absent, Str(S1)}, has_items : {TRUE}, items : SeqsUpTo(Items, MaxSaleItems)]
        \cup [id : {Absent, Str(S1)}, has_items : {FALSE}, items : {<<>>}]

(***************************************************************************)
(* One call of compute_sale_cost, an item at a step.                        *)
(***************************************************************************)
MainIdle ==
    /\ pc = "idle" /\ argc = 0 /\ fs = <<>> /\ price_catalogue = <<>>
    /\ sales_record = <<>> /\ total_cost = 0 /\ all_errors = <<>>
    /\ next_sale = 0 /\ stdout = <<>> /\ exit_status = -1
    /\ calls = <<>>

InitCost ==
    /\ MainIdle
    /\ cpc = "loop"
    /\ c_sale \in Sales
    /\ c_catalogue \in Catalogues
    /\ c_next = 0
    /\ c_state = CostStart

CostItem ==
    /\ cpc = "loop"
    /\ c_next < Len(ItemsOf(c_sale))
    /\ c_next' = c_next + 1
    /\ c_state' = ItemStep(c_state, c_sale, c_catalogue, ItemsOf(c_sale)[c_next + 1])
    /\ cpc' = IF c_state'.raised = NoException THEN "loop" ELSE "raised"
    /\ UNCHANGED <<c_sale, c_catalogue, mainVars>>

CostReturn ==
    /\ cpc = "loop"
    /\ c_next = Len(ItemsOf(c_sale))
    /\ cpc' = "returned"
    /\ UNCHANGED <<c_sale, c_catalogue, c_next, c_state, mainVars>>

NextCost == CostItem \/ CostReturn

SpecCost == InitCost /\ [][NextCost]_vars

(***************************************************************************)
(* load_json_file                                                          *)
(***************************************************************************)
\* a file is [state, doc]: state is "missing", "invalid" (not JSON) or "ok",
\* doc is [kind, value], kind "mapping" or "list"
NoDoc == [kind |-> "none", value |-> <<>>]

\* faulty variant: a source that cannot be read is an empty mapping
load_json_file_NoExit(file, filename) ==
    IF file.state = "ok"
    THEN [exit |-> FALSE, printed |-> <<>>, value |-> file.doc]
    ELSE [exit |-> FALSE, printed |-> <<>>, value |-> [kind |-> "mapping", value |-> <<>>]]

\* what the call does: the parsed document, or a diagnostic and sys.exit(1)
load_json_file(file, filename) ==
    CASE file.state = "ok" ->
            [exit |-> FALSE, printed |-> <<>>, value |-> file.doc]
      [] file.state = "missing" ->
            [exit |-> TRUE,
             printed |-> <<"Error: File '", filename, "' not found">>,
             value |-> NoDoc]
      [] OTHER ->
            [exit |-> TRUE,
             printed |-> <<"Error: Invalid JSON in file '", filename, "': ",
                           "<str(e)>">>,
             value |-> NoDoc]

(***************************************************************************)
(* write_results                                                           *)
(***************************************************************************)
\* the decimal digits of a natural number, and of an integer
RECURSIVE FormatNat(_)
FormatNat(n) ==
    IF n < 10 THEN <<DigitChars[n + 1]>>
    ELSE FormatNat(n \div 10) \o <<DigitChars[(n % 10) + 1]>>

FormatInt(n) == IF n < 0 THEN <<"-">> \o FormatNat(-n) ELSE FormatNat(n)

\* f"{x:.2f}" and f"{x:.3f}" of a whole number
Format2f(x) == FormatInt(x) \o <<".", "0", "0">>

Format3f(x) == FormatInt(x) \o <<".", "0", "0", "0">>

\* "\n".join(results)
RECURSIVE JoinLines(_)
JoinLines(results) ==
    IF results = <<>> THEN <<>>
    ELSE IF Len(results) = 1 THEN results[1]
    ELSE JoinLines(SubSeq(results, 1, Len(results) - 1)) \o <<"\n">>
            \o results[Len(results)]

ReportHead(cost, execution_time) ==
    << <<"=== Sales Computation Results ===">>,
       <<"Total Cost: $">> \o Format2f(cost),
       <<"Execution Time: ">> \o Format3f(execution_time) \o <<" seconds">> >>

\* faulty variant: the errors are left out of the report
ResultsOmitErrors(cost, execution_time, errors) ==
    ReportHead(cost, execution_time)
        \o << <<"\n", "No errors encountered during execution.">> >>

\* the list results
ResultsOf(cost, execution_time, errors) ==
    IF errors # <<>>
    THEN ReportHead(cost, execution_time)
            \o << <<"\n", "Errors encountered during execution:">> >> \o errors
    ELSE ReportHead(cost, execution_time)
            \o << <<"\n", "No errors encountered during execution.">> >>

(***************************************************************************)
(* The inputs of a run of main.                                            *)
(***************************************************************************)
CatalogueName == "<argv[1]>"
SalesName == "<argv[2]>"

RunItems ==
    { [product |-> Str(Apple), quantity |-> Num(1)],
      [product |-> Str(Apple), quantity |-> Num(2)],
      [product |-> Str(Bread), quantity |-> Num(2)],
      [product |-> Str(Milk), quantity |-> Num(1)],
      [product |-> Str(Apple), quantity |-> Absent],
      [product |-> Str(Bread), quantity |-> Str(<<"2">>)] }

\* Bread has the price 3, Apple any price
RunCatalogues == {[k \in {Apple, Bread} |-> IF k = Apple THEN p ELSE Num(3)] : p \in Prices}

\* the sales with exactly k items
SalesWith(k) ==
    [id : {Str(S1)}, has_items : {TRUE}, items : [1..k -> RunItems]]
        \cup (IF k = 0 THEN [id : {Str(S1)}, has_items : {FALSE}, items : {<<>>}]
              ELSE {})

\* the lists of n sales with at most budget items in all
RECURSIVE SaleLists(_, _)
SaleLists(n, budget) ==
    IF n = 0 THEN {<<>>}
    ELSE UNION { { <<sale>> \o rest : sale \in SalesWith(k),
                                     rest \in SaleLists(n - 1, budget - k) }
                 : k \in 0..budget }

SalesRecords == UNION {SaleLists(n, MaxItems) : n \in 0..MaxSales}

CatalogueFiles ==
    {[state |-> "missing", doc |-> NoDoc], [state |-> "invalid", doc |-> NoDoc]}
        \cup {[state |-> "ok", doc |-> [kind |-> "mapping", value |-> c]] : c \in RunCatalogues}

\* a sales record that is a mapping, {"sales": []}, is not a list
SalesFiles ==
    {[state |-> "missing", doc |-> NoDoc], [state |-> "invalid", doc |-> NoDoc],
     [state |-> "ok", doc |-> [kind |-> "mapping", value |-> <<>>]]}
        \cup {[state |-> "ok", doc |-> [kind |-> "list", value |-> r]] : r \in SalesRecords}

\* the items of the first n sales, in order
RECURSIVE ItemsOfSales(_, _)
ItemsOfSales(S, n) ==
    IF n = 0 THEN <<>> ELSE ItemsOfSales(S, n - 1) \o ItemsOf(S[n])

OkCatalogueFiles == {f \in CatalogueFiles : f.state = "ok"}

\* the sales files a run is given when an earlier check ends it before the
\* sales record is read: no list, or a list of at most one item
ShortSalesFiles ==
    {f \in SalesFiles : f.doc.kind = "list" =>
        Len(ItemsOfSales(f.doc.value, Len(f.doc.value))) <= 1 /\ Len(f.doc.value) <= 1}

\* SalesResults.txt before the run
ResultsFiles == {[exists |-> FALSE, text |-> <<>>], [exists |-> TRUE, text |-> <<"old">>]}

\* time.time() - start_time, in whole seconds
ElapsedTimes == {0, 1}

(***************************************************************************)
(* main                                                                    *)
(***************************************************************************)
CostIdle ==
    /\ cpc = "idle" /\ c_sale = <<>> /\ c_catalogue = <<>> /\ c_next = 0
    /\ c_state = CostStart

Init ==
    /\ CostIdle
    /\ pc = "start"
    /\ \/ /\ argc = 3
          /\ fs \in [catalogue : OkCatalogueFiles, sales : SalesFiles,
                      results : ResultsFiles]
       \/ /\ argc \in {2, 3, 4}
          /\ fs \in [catalogue : CatalogueFiles, sales : ShortSalesFiles,
                      results : ResultsFiles]
          /\ argc # 3 \/ fs.catalogue.state # "ok"
    /\ price_catalogue = NoDoc
    /\ sales_record = NoDoc
    /\ total_cost = 0
    /\ all_errors = <<>>
    /\ next_sale = 0
    /\ stdout = <<>>
    /\ exit_status = -1
    /\ calls = [compute_sale_cost |-> 0, write_results |-> 0]

\* sys.exit(status), after printing text when there is one
Exit(status, printed) ==
    /\ pc' = "exited"
    /\ exit_status' = status
    /\ stdout' = IF printed = <<>> THEN stdout ELSE Append(stdout, printed)

\* faulty variant: if len(sys.argv) < 3
CheckArgsAtLeast ==
    /\ pc = "start"
    /\ IF argc < 3
       THEN Exit(1, <<"Usage: python computeSales.py ",
                      "priceCatalogue.json salesRecord.json">>)
       ELSE /\ pc' = "load_catalogue"
            /\ UNCHANGED <<stdout, exit_status>>
    /\ UNCHANGED <<argc, fs, price_catalogue, sales_record, total_cost,
                   all_errors, next_sale, calls, costVars>>

\* if len(sys.argv) != 3
CheckArgs ==
    /\ pc = "start"
    /\ IF argc # 3
       THEN Exit(1, <<"Usage: python computeSales.py ",
                      "priceCatalogue.json salesRecord.json">>)
       ELSE /\ pc' = "load_catalogue"
            /\ UNCHANGED <<stdout, exit_status>>
    /\ UNCHANGED <<argc, fs, price_catalogue, sales_record, total_cost,
                   all_errors, next_sale, calls, costVars>>

\* price_catalogue = load_json_file(sys.argv[1])
LoadCatalogue ==
    /\ pc = "load_catalogue"
    /\ LET loaded == load_json_file(fs.catalogue, CatalogueName)
       IN  IF loaded.exit
           THEN Exit(1, loaded.printed) /\ UNCHANGED price_catalogue
           ELSE /\ pc' = "load_sales"
                /\ price_catalogue' = loaded.value
                /\ UNCHANGED <<stdout, exit_status>>
    /\ UNCHANGED <<argc, fs, sales_record, total_cost, all_errors, next_sale,
                   calls, costVars>>

\* sales_record = load_json_file(sys.argv[2]); total_cost = 0; all_errors = []
LoadSales ==
    /\ pc = "load_sales"
    /\ LET loaded == load_json_file(fs.sales, SalesName)
       IN  IF loaded.exit
           THEN Exit(1, loaded.printed) /\ UNCHANGED <<sales_record, total_cost, all_errors>>
           ELSE /\ pc' = "check_shape"
                /\ sales_record' = loaded.value
                /\ total_cost' = 0
                /\ all_errors' = <<>>
                /\ UNCHANGED <<stdout, exit_status>>
    /\ UNCHANGED <<argc, fs, price_catalogue, next_sale, calls, costVars>>

\* if not isinstance(sales_record, list)
CheckShape ==
    /\ pc = "check_shape"
    /\ IF sales_record.kind # "list"
       THEN Exit(1, <<"Error: Sales record must be a list of sales">>)
       ELSE /\ pc' = "loop"
            /\ UNCHANGED <<stdout, exit_status>>
    /\ UNCHANGED <<argc, fs, price_catalogue, sales_record, total_cost,
                   all_errors, next_sale, calls, costVars>>

\* faulty variant: the errors of a sale go in front of the earlier ones
ExtendInFront(list, errors) == errors \o list

\* all_errors.extend(errors)
Extend(list, errors) == list \o errors

\* one iteration of `for sale in sales_record`; an exception that leaves
\* compute_sale_cost ends the process with a traceback and status 1
ProcessSale ==
    /\ pc = "loop"
    /\ next_sale < Len(sales_record.value)
    /\ LET sale == sales_record.value[next_sale + 1]
           result == compute_sale_cost(sale, price_catalogue.value)
       IN  /\ calls' = [calls EXCEPT !.compute_sale_cost = @ + 1]
           /\ IF result.raised # NoException
              THEN /\ Exit(1, <<>>)
                   /\ UNCHANGED <<total_cost, all_errors, next_sale>>
              ELSE /\ total_cost' = total_cost + result.total_cost
                   /\ all_errors' = Extend(all_errors, result.errors)
                   /\ next_sale' = next_sale + 1
                   /\ UNCHANGED <<pc, stdout, exit_status>>
    /\ UNCHANGED <<argc, fs, price_catalogue, sales_record, costVars>>

\* execution_time = time.time() - start_time; write_results(...), and the end
\* of main.  open('SalesResults.txt', 'w') may fail: the OSError is not
\* caught and ends the process with status 1, after the print.
WriteResults ==
    /\ pc = "loop"
    /\ next_sale = Len(sales_record.value)
    /\ \E execution_time \in ElapsedTimes, writable \in BOOLEAN :
         LET text == JoinLines(ResultsOf(total_cost, execution_time, all_errors))
         IN  /\ stdout' = Append(stdout, text)
             /\ fs' = IF writable
                      THEN [fs EXCEPT !.results = [exists |-> TRUE, text |-> text]]
                      ELSE fs
             /\ exit_status' = IF writable THEN 0 ELSE 1
    /\ pc' = "exited"
    /\ calls' = [calls EXCEPT !.write_results = @ + 1]
    /\ UNCHANGED <<argc, price_catalogue, sales_record, total_cost, all_errors,
                   next_sale, costVars>>

Next ==
    \/ CheckArgs
    \/ LoadCatalogue
    \/ LoadSales
    \/ CheckShape
    \/ ProcessSale
    \/ WriteResults

Spec == Init /\ [][Next]_vars

(***************************************************************************)
(* Properties of compute_sale_cost, checked under SpecCost.                *)
(***************************************************************************)
\* the loop is about to take the item CurItem
Stepping == cpc = "loop" /\ c_next < Len(ItemsOf(c_sale))

CurItem == ItemsOf(c_sale)[c_next + 1]

LastItem == ItemsOf(c_sale)[c_next]

\* a product that is absent or empty, a quantity that is absent, zero or falsy
NoProduct(item) == item.product.t \in {"absent", "null"} \/ item.product = Str(<<>>)

NoQuantity(item) ==
    \/ item.quantity.t \in {"absent", "null"}
    \/ item.quantity = Num(0)
    \/ item.quantity = Str(<<>>)

\* the step records exactly the error message and adds nothing to the total
RecordsOnly(message) ==
    /\ c_state'.errors = Append(c_state.errors, message)
    /\ c_state'.total_cost = c_state.total_cost
    /\ c_state'.raised = NoException

SaleIdOrUnknown == IF c_sale.id.t = "absent" THEN <<"Unknown">> ELSE c_sale.id.s

\* C4: every line item whose product is absent or empty, or whose quantity is
\* absent, zero or falsy, adds exactly one error, "Invalid item in sale <id or
\* 'Unknown'>: Missing product name or quantity", and nothing to the sale
\* total, whatever the items before it and whether or not its product is a key
\* of the catalogue.
C4_MissingFieldOneErrorNoCost ==
    [][(Stepping /\ (NoProduct(CurItem) \/ NoQuantity(CurItem)))
        => RecordsOnly(<<"Invalid item in sale ">> \o SaleIdOrUnknown
                        \o <<": ", "Missing product name or quantity">>)]_vars

\* the second item of a sale names a product of the catalogue, has no
\* quantity, and was taken after an item that added to the total
C4_Witness ==
    /\ c_next = 2
    /\ LastItem.product = Str(Apple)
    /\ NoQuantity(LastItem)
    /\ Apple \in DOMAIN c_catalogue
    /\ c_state.total_cost > 0
    /\ c_state.errors = <<<<"Invalid item in sale ", "Unknown", ": ",
                            "Missing product name or quantity">>>>

\* C5: every line item with a non-empty product and a truthy quantity whose
\* product is not a key of the catalogue adds exactly one error, "Product
\* '<product>' not found in price catalogue", and nothing to the total.
C5_UnknownProductOneErrorNoCost ==
    [][(/\ Stepping
        /\ ~NoProduct(CurItem)
        /\ ~NoQuantity(CurItem)
        /\ CurItem.product.s \notin DOMAIN c_catalogue)
        => RecordsOnly(<<"Product '">> \o CurItem.product.s
                        \o <<"' not found in price catalogue">>)]_vars

C5_Witness ==
    /\ c_next = 2
    /\ LastItem = [product |-> Str(Milk), quantity |-> Num(2)]
    /\ c_state.total_cost > 0
    /\ c_state.errors = <<<<"Product '">> \o Milk \o <<"' not found in price catalogue">>>>

\* the catalogue's price of the item's product does not coerce to a number
PriceNotCoercible(item) ==
    /\ item.product.t = "str"
    /\ item.product.s \in DOMAIN c_catalogue
    /\ FloatOf(c_catalogue[item.product.s]).exc # NoException

InvalidPriceRecorded ==
    RecordsOnly(<<"Invalid price for product '">> \o CurItem.product.s
                 \o <<"' ", "in price catalogue">>)

\* C6 as stated: every line item with a truthy quantity that references a
\* catalogue entry whose price does not coerce to a number adds exactly one
\* error, "Invalid price for product '<product>' in price catalogue", and
\* leaves the sale total as it was.
C6_AsStated ==
    [][(Stepping /\ ~NoQuantity(CurItem) /\ PriceNotCoercible(CurItem))
        => InvalidPriceRecorded]_vars

\* C6, amended: the same for every line item with a non-empty product and a
\* truthy quantity (an item whose product is the empty string is an invalid
\* item, also when "" is a key of the catalogue).
C6_BadPriceOneErrorNoCost ==
    [][(/\ Stepping
        /\ ~NoProduct(CurItem)
        /\ ~NoQuantity(CurItem)
        /\ PriceNotCoercible(CurItem))
        => InvalidPriceRecorded]_vars

C6_Witness ==
    /\ c_next = 2
    /\ LastItem = [product |-> Str(Apple), quantity |-> Num(2)]
    /\ Apple \in DOMAIN c_catalogue
    /\ c_catalogue[Apple] = Null
    /\ <<>> \in DOMAIN c_catalogue
    /\ Len(c_state.errors) = 2
    /\ c_state.errors[2] = <<"Invalid price for product '">> \o Apple
                              \o <<"' ", "in price catalogue">>
    /\ c_state.total_cost = 0

\* C9: a line item with a non-empty product, a truthy quantity, a product that
\* is a key of the catalogue and a price that coerces to a number records no
\* error, whatever its quantity is, and adds price x quantity to the total.
C9_ValidPriceNoError ==
    [][(/\ Stepping
        /\ ~NoProduct(CurItem)
        /\ ~NoQuantity(CurItem)
        /\ CurItem.product.s \in DOMAIN c_catalogue
        /\ ~PriceNotCoercible(CurItem))
        => /\ c_state'.errors = c_state.errors
           /\ CurItem.quantity.t = "num" =>
                c_state'.total_cost = c_state.total_cost
                    + FloatOf(c_catalogue[CurItem.product.s]).val * CurItem.quantity.n]_vars

(***************************************************************************)
(* Properties of a run of main, checked under Spec.                        *)
(***************************************************************************)
\* the for loop of main is over: what write_results is called with
LoopDone == pc = "loop" /\ next_sale = Len(sales_record.value)

\* the run is over and write_results was entered
Reported == pc = "exited" /\ calls.write_results = 1

\* a price that coerces to a number, and the number
Coercible(price) ==
    \/ price.t = "num"
    \/ price.t = "str" /\ price.s # <<>> /\ \A k \in 1..Len(price.s) : IsDigit(price.s[k])

NumberOf(price) == IF price.t = "num" THEN price.n ELSE ParseDigits(price.s)

\* a valid line item: a non-empty product that is a key of the catalogue with
\* a price coercible to a number, and a non-zero numeric quantity
ValidItem(item, catalogue) ==
    /\ item.product.t = "str"
    /\ item.product.s # <<>>
    /\ item.product.s \in DOMAIN catalogue
    /\ Coercible(catalogue[item.product.s])
    /\ item.quantity.t = "num"
    /\ item.quantity.n # 0

\* the sum of price x quantity over the valid items among the first n
RECURSIVE SumValid(_, _, _)
SumValid(items, catalogue, n) ==
    IF n = 0 THEN 0
    ELSE SumValid(items, catalogue, n - 1)
            + (IF ValidItem(items[n], catalogue)
               THEN NumberOf(catalogue[items[n].product.s]) * items[n].quantity.n
               ELSE 0)

InvalidCount(items, catalogue) ==
    Cardinality({k \in 1..Len(items) : ~ValidItem(items[k], catalogue)})

RecordItems == ItemsOfSales(sales_record.value, Len(sales_record.value))

\* C1: when no line item of the sales record is invalid, the grand total
\* handed to the report after the loop is the sum over all sales and all
\* their items of price x quantity, and the error list is empty.
C1_TotalIsSumOfValidItems ==
    LoopDone =>
        LET items == RecordItems
        IN  (\A k \in 1..Len(items) : ValidItem(items[k], price_catalogue.value))
                => /\ total_cost = SumValid(items, price_catalogue.value, Len(items))
                   /\ all_errors = <<>>

\* two sales of one valid item each, Apple priced "13": 13 x 2 + 3 x 2
C1_Witness ==
    /\ LoopDone
    /\ price_catalogue.value[Apple] = Str(<<"1", "3">>)
    /\ Len(sales_record.value) = 2
    /\ ItemsOf(sales_record.value[1]) = <<[product |-> Str(Apple), quantity |-> Num(2)]>>
    /\ ItemsOf(sales_record.value[2]) = <<[product |-> Str(Bread), quantity |-> Num(2)]>>
    /\ total_cost = 32
    /\ all_errors = <<>>

\* C2: once the sales record has passed the sequence check, the run takes
\* every sale and every line item whatever errors earlier items recorded (each
\* item leaves its price x quantity in the total or its error in the list),
\* the loop has a sale to take or write_results to call, and the run ends
\* only after write_results was entered.
C2_EverySaleAndItemProcessed ==
    /\ pc = "loop" => next_sale \in 0..Len(sales_record.value)
    /\ (pc = "exited" /\ sales_record.kind = "list")
        => LET items == RecordItems
           IN  /\ calls.write_results = 1
               /\ calls.compute_sale_cost = Len(sales_record.value)
               /\ next_sale = Len(sales_record.value)
               /\ Len(all_errors) = InvalidCount(items, price_catalogue.value)
               /\ total_cost = SumValid(items, price_catalogue.value, Len(items))

\* the only item of the first sale has a null price and records an error;
\* the valid item of the second sale is still costed and the report written
C2_Witness ==
    /\ Reported
    /\ price_catalogue.value[Apple] = Null
    /\ Len(sales_record.value) = 2
    /\ ItemsOf(sales_record.value[1]) = <<[product |-> Str(Apple), quantity |-> Num(1)]>>
    /\ ItemsOf(sales_record.value[2]) = <<[product |-> Str(Bread), quantity |-> Num(2)]>>
    /\ Len(all_errors) = 1
    /\ total_cost = 6

\* the errors of the first n sales, sale by sale and item by item
RECURSIVE ErrorsInOrder(_, _, _)
ErrorsInOrder(items, sale_of, n) ==
    IF n = 0 THEN <<>>
    ELSE ErrorsInOrder(items, sale_of, n - 1)
            \o ItemStep(CostStart, sale_of[n], price_catalogue.value, items[n]).errors

\* the sale each item of RecordItems belongs to
RECURSIVE SalesOfItems(_, _)
SalesOfItems(S, n) ==
    IF n = 0 THEN <<>>
    ELSE SalesOfItems(S, n - 1) \o [k \in 1..Len(ItemsOf(S[n])) |-> S[n]]

\* C3: the error list handed to the report is the sequence of the items'
\* errors in sale order, then item order within the sale: nothing is
\* reordered and equal messages keep their own entries.
C3_ErrorsInSaleThenItemOrder ==
    pc = "loop" =>
        LET items == ItemsOfSales(sales_record.value, next_sale)
        IN  all_errors = ErrorsInOrder(items, SalesOfItems(sales_record.value, next_sale),
                                       Len(items))

\* an unknown product in the first sale, a missing quantity in the second
C3_Witness ==
    /\ LoopDone
    /\ Len(sales_record.value) = 2
    /\ all_errors = << <<"Product '">> \o Milk \o <<"' not found in price catalogue">>,
                       <<"Invalid item in sale ">> \o S1
                          \o <<": ", "Missing product name or quantity">> >>

\* a fatal condition: an argument count other than two (argv of three), a
\* source that is missing or does not parse, a sales record that is no list
Fatal ==
    \/ argc # 3
    \/ fs.catalogue.state # "ok"
    \/ fs.sales.state # "ok"
    \/ fs.sales.doc.kind # "list"

\* C7: a run with a fatal condition never enters compute_sale_cost or
\* write_results and never touches SalesResults.txt, and ends with status 1
\* after one diagnostic; status 0 is only the status of a run that wrote the
\* report.
C7_FatalExitsWithoutReport ==
    /\ [](Fatal => /\ calls.compute_sale_cost = 0
                   /\ calls.write_results = 0
                   /\ fs.results \in ResultsFiles
                   /\ exit_status \in {-1, 1}
                   /\ pc = "exited" => exit_status = 1 /\ Len(stdout) = 1)
    /\ [](exit_status = 0 => /\ calls.write_results = 1
                             /\ fs.results = [exists |-> TRUE, text |-> stdout[Len(stdout)]])
    /\ [][Fatal => fs' = fs]_vars

C7_Witness ==
    /\ pc = "exited"
    /\ argc = 3
    /\ fs.catalogue.state = "ok"
    /\ fs.sales.state = "ok"
    /\ fs.sales.doc.kind = "mapping"
    /\ fs.results = [exists |-> FALSE, text |-> <<>>]
    /\ exit_status = 1
    /\ stdout = << <<"Error: Sales record must be a list of sales">> >>

\* the lines of a text: the chunks between its "\n"
RECURSIVE SplitLines(_)
SplitLines(text) ==
    IF text = <<>> THEN << <<>> >>
    ELSE LET front == SplitLines(SubSeq(text, 1, Len(text) - 1))
             c == text[Len(text)]
         IN  IF c = "\n" THEN Append(front, <<>>)
             ELSE [front EXCEPT ![Len(front)] = Append(@, c)]

ReportLines == SplitLines(stdout[Len(stdout)])

\* C8: the report starts with the header, the total-cost line and the
\* execution-time line; then, when there are errors, a blank line, "Errors
\* encountered during execution:" and every error on its own line in
\* accumulated order, and otherwise a blank line and "No errors encountered
\* during execution."; the text written to SalesResults.txt is the text
\* printed.
C8_ReportLayout ==
    Reported =>
        LET lines == ReportLines
        IN  /\ Len(lines) >= 5
            /\ lines[1] = <<"=== Sales Computation Results ===">>
            /\ lines[2] = <<"Total Cost: $">> \o FormatInt(total_cost) \o <<".", "0", "0">>
            /\ lines[3][1] = "Execution Time: "
            /\ lines[3][Len(lines[3])] = " seconds"
            /\ lines[4] = <<>>
            /\ IF all_errors # <<>>
               THEN /\ lines[5] = <<"Errors encountered during execution:">>
                    /\ SubSeq(lines, 6, Len(lines)) = all_errors
               ELSE /\ lines[5] = <<"No errors encountered during execution.">>
                    /\ Len(lines) = 5
            /\ exit_status = 0
                => fs.results = [exists |-> TRUE, text |-> stdout[Len(stdout)]]

C8_Witness ==
    /\ Reported
    /\ exit_status = 0
    /\ Len(all_errors) = 2
    /\ all_errors[1] # all_errors[2]
    /\ Len(ReportLines) = 7
    /\ fs.results.text = stdout[1]

\* the diagnostic of the first check that fails, in the order argument count,
\* price catalogue, sales record, shape of the sales record
FirstDiagnostic ==
    IF argc # 3
    THEN <<"Usage: python computeSales.py ", "priceCatalogue.json salesRecord.json">>
    ELSE IF fs.catalogue.state = "missing"
    THEN <<"Error: File '", CatalogueName, "' not found">>
    ELSE IF fs.catalogue.state = "invalid"
    THEN <<"Error: Invalid JSON in file '", CatalogueName, "': ", "<str(e)>">>
    ELSE IF fs.sales.state = "missing"
    THEN <<"Error: File '", SalesName, "' not found">>
    ELSE IF fs.sales.state = "invalid"
    THEN <<"Error: Invalid JSON in file '", SalesName, "': ", "<str(e)>">>
    ELSE <<"Error: Sales record must be a list of sales">>

\* C10: the fatal conditions are checked in the order argument count, price
\* catalogue, sales record, shape; the run ends at the first that fails with
\* that check's diagnostic as its one line of output, and no later step runs:
\* no later source is loaded.
C10_FirstFatalCheckOnly ==
    Fatal =>
        /\ (argc # 3 \/ fs.catalogue.state # "ok") => price_catalogue = NoDoc
        /\ (argc # 3 \/ fs.catalogue.state # "ok" \/ fs.sales.state # "ok")
            => sales_record = NoDoc
        /\ pc \notin {"loop"}
        /\ IF pc = "exited"
           THEN stdout = <<FirstDiagnostic>> /\ Len(SplitLines(stdout[1])) = 1
           ELSE stdout = <<>>

\* the catalogue is missing and the sales record is a mapping
C10_Witness ==
    /\ pc = "exited"
    /\ argc = 3
    /\ fs.catalogue.state = "missing"
    /\ fs.sales.state = "ok"
    /\ fs.sales.doc.kind = "mapping"
    /\ sales_record = NoDoc
    /\ stdout = << <<"Error: File '", CatalogueName, "' not found">> >>

====
